---- MODULE Spec2Model ----
(***************************************************************************)
(* Model of the Capacities MCP server (src/src/index.ts): process start-up,*)
(* the four tool handlers, the HTTP helper capacitiesRequest, and the two  *)
(* channels (stdio, and POST /mcp on the shared McpServer instance).       *)
(*                                                                         *)
(* Conventions.                                                            *)
(*  - An optional value (a JavaScript value that may be undefined) is a    *)
(*    sequence of length 0 (undefined) or 1 (the value).                   *)
(*  - A short string (title, url, id, ...) is a TLA+ string; the text of a *)
(*    daily note is a sequence of UTF-16 code units, which is what         *)
(*    String.length and String.slice count.                                *)
(*  - A reply or error message built by a template literal is the sequence *)
(*    of its pieces, in order; the non-ASCII literals of the source are    *)
(*    written as ASCII tokens (U+2026 is the ellipsis, U+2022 the bullet,  *)
(*    [code] and [/code] the backticks around an id).                      *)
(*  - A JSON object is a record over the fields the handlers read, each    *)
(*    optional; the text of a JSON body is the rendering of that record.   *)
(***************************************************************************)
EXTENDS Integers, Sequences, FiniteSets, TLC

\* ---------------------------------------------------------------- bounds
MaxReqs == 2        \* concurrent POST /mcp requests in SpecHttp
MaxOver == 2        \* note texts run up to PreviewLimit + MaxOver code units
MaxResults == 2     \* upstream returns at most this many spaces / matches

\* ------------------------------------------------------ program constants
PreviewLimit == 200
API_BASE == "https://api.capacities.io"
DefaultTransport == "stdio"
DefaultPort == "3000"

\* ------------------------------------------------------- optional values
None == <<>>
Some(x) == <<x>>
\* a ?? b
Coalesce(a, b) == IF a # None THEN a[1] ELSE b

\* ---------------------------------------------------------------- tools
DailyNote == "capacities_save_to_daily_note"
Weblink == "capacities_save_weblink"
GetSpaces == "capacities_get_spaces"
Lookup == "capacities_lookup"
ToolNames == {DailyNote, Weblink, GetSpaces, Lookup}

\* ------------------------------------------------------ literal fragments
Ellipsis == "U+2026"
MissingSpaceText == "Error: No spaceId provided and CAPACITIES_SPACE_ID is not set."
TokenDiagnostic == "ERROR: CAPACITIES_TOKEN env var is required\n"
DailyHeader == "U+2705 Saved to Daily Note:\n\n"
WeblinkHeader == "U+2705 Link saved to Capacities:\n\n**"
SpacesHeader == "U+1F4DA Your Capacities spaces:\n\n"
NothingFound == "Nothing found for query: \""
ResultsHeader == "U+1F50D Results for \""
BulletOpen == "U+2022 **"
ApiErrorPrefix == "Capacities API error "

VARIABLES
    env,              \* process.env: CAPACITIES_TOKEN, CAPACITIES_SPACE_ID, TRANSPORT, PORT
    API_TOKEN,        \* const API_TOKEN
    DEFAULT_SPACE_ID, \* const DEFAULT_SPACE_ID
    phase,            \* position of the top-level script
    exitCode,         \* optional exit status of the process
    stderr,           \* what was written to process.stderr
    tools,            \* names registered on the server
    channel,          \* "none", "stdio" or "http"
    port,             \* optional port the HTTP listener is bound to
    serverTransport,  \* optional transport the one McpServer is connected to
    pc,               \* per request: position of its handling
    inv,              \* per request: optional tool invocation (tool, args)
    calls,            \* per request: outbound fetch calls made, in order
    response,         \* per request: optional upstream response
    outcome,          \* per request: optional result of the tool handler
    deliveredOn       \* per request: optional transport the reply was sent on

vars == <<env, API_TOKEN, DEFAULT_SPACE_ID, phase, exitCode, stderr, tools,
          channel, port, serverTransport, pc, inv, calls, response, outcome,
          deliveredOn>>

procVars == <<env, API_TOKEN, DEFAULT_SPACE_ID, phase, exitCode, stderr, tools,
              channel, port>>

Reqs == 1..MaxReqs

\* ------------------------------------------------------------ sequences
RECURSIVE Join(_, _)
\* Array.prototype.join on an array of piece sequences
Join(parts, sep) ==
    IF parts = <<>> THEN <<>>
    ELSE IF Len(parts) = 1 THEN parts[1]
    ELSE parts[1] \o <<sep>> \o Join(Tail(parts), sep)

SeqsUpTo(S, n) == UNION {[1..k -> S] : k \in 0..n}

\* --------------------------------------------------------- JSON objects
\* The objects the handlers read: every field optional.
JsonObject(title, id, spaces, results) ==
    [title |-> title, id |-> id, spaces |-> spaces, results |-> results]
\* {} as T
EmptyObject == JsonObject(None, None, None, None)

SpaceItems == {[id |-> "s1", title |-> "Home"], [id |-> "s2", title |-> "Work"]}
LookupItems == {[id |-> "o1", structureId |-> "Page", title |-> "Alpha"],
                [id |-> "o2", structureId |-> "Tag", title |-> "Beta"]}

WeblinkObjects == {EmptyObject,
                   JsonObject(Some("Example"), Some("w1"), None, None),
                   JsonObject(None, Some("w1"), None, None)}
SpacesObjects == {JsonObject(None, None, Some(l), None) : l \in SeqsUpTo(SpaceItems, MaxResults)}
LookupObjects == {JsonObject(None, None, None, Some(l)) : l \in SeqsUpTo(LookupItems, MaxResults)}
JsonUniverse == WeblinkObjects \cup SpacesObjects \cup LookupObjects

\* The text upstream sends for a JSON object.
JsonText(obj) == ToString(obj)
IsJson(text) == \E obj \in JsonUniverse : JsonText(obj) = text
\* JSON.parse on a text that is JSON
JSON_parse(text) == CHOOSE obj \in JsonUniverse : JsonText(obj) = text

WhitespaceOnly == {" ", "\n", " \n "}
\* String.prototype.trim
Trim(text) == IF text \in WhitespaceOnly THEN "" ELSE text

\* ---------------------------------------------------- capacitiesRequest
\* The request handed to fetch: url, method, headers, optional body.  The
\* body is the object JSON.stringify serialises; no handler passes params.
FetchRequest(path, method, body) ==
    [url |-> <<API_BASE, path>>,
     method |-> method,
     authorization |-> <<"Bearer ", API_TOKEN>>,
     body |-> body]

\* Mutant of Fetch: the request is sent again (a retry).
FetchRetried(log, request) == Append(Append(log, request), request)

\* One call of fetch, appended to the log of the invocation's calls.
Fetch(log, request) == Append(log, request)

\* res.ok
ResponseOk(res) == res.status \in 200..299

Returned(value) == [threw |-> FALSE, value |-> value, message |-> <<>>]
Thrown(message) == [threw |-> TRUE, value |-> EmptyObject, message |-> message]

\* Mutant of ErrorText: the status line is used whatever the body holds.
ErrorTextStatusLine(res) == res.statusText

\* const text = await res.text().catch(() => res.statusText)
ErrorText(res) == Coalesce(res.body, res.statusText)

\* throw new Error(`Capacities API error ${res.status}: ${text}`)
ApiError(res) == <<ApiErrorPrefix, ToString(res.status), ": ", ErrorText(res)>>

\* What capacitiesRequest settles with once fetch has resolved with res.
CapacitiesResult(res) ==
    IF ~ResponseOk(res) THEN Thrown(ApiError(res))
    ELSE IF res.body = None THEN Thrown(<<"TypeError: ", "body stream unreadable">>)
    ELSE LET responseText == res.body[1] IN
         IF responseText = "" \/ Trim(responseText) = "" THEN Returned(EmptyObject)
         ELSE IF IsJson(responseText) THEN Returned(JSON_parse(responseText))
         ELSE Thrown(<<"SyntaxError: ", "Unexpected token in JSON">>)

\* ---------------------------------------------------------- tool handlers
Reply(text) == [kind |-> "reply", text |-> text]
Failed(message) == [kind |-> "failed", text |-> message]

\* Mutant of TruthyArray: an empty array counts as absent.
TruthyArrayNonEmpty(opt) == opt # None /\ opt[1] # <<>>

\* a string or array in a condition: "" is falsy, every array is truthy
TruthyString(opt) == opt # None /\ opt[1] # ""
TruthyArray(opt) == opt # None

\* Mutant of TargetSpace: the configured default wins over the argument.
TargetSpaceDefaultFirst(spaceId) ==
    IF DEFAULT_SPACE_ID # "" THEN DEFAULT_SPACE_ID ELSE Coalesce(spaceId, "")

\* const targetSpace = spaceId ?? DEFAULT_SPACE_ID
TargetSpace(spaceId) == Coalesce(spaceId, DEFAULT_SPACE_ID)

\* The tools whose handler resolves a target space before calling.
ResolvesSpace(tool) == tool \in {DailyNote, Weblink, Lookup}

\* Mutant of MissingSpace: only an unset CAPACITIES_SPACE_ID counts as missing.
MissingSpaceUnsetOnly(invocation) ==
    /\ ResolvesSpace(invocation.tool)
    /\ invocation.args.spaceId = None
    /\ env.CAPACITIES_SPACE_ID = None

\* if (!targetSpace) return the error reply
MissingSpace(invocation) ==
    ResolvesSpace(invocation.tool) /\ TargetSpace(invocation.args.spaceId) = ""

\* An object literal with conditional spreads: the fields whose condition holds.
ObjectOf(fields) ==
    LET present == {i \in 1..Len(fields) : fields[i][3]}
        keys == {fields[i][1] : i \in present}
    IN  [k \in keys |-> LET i == CHOOSE j \in present : fields[j][1] = k IN fields[i][2]]

DailyNoteBody(args) ==
    ObjectOf(<< <<"spaceId", TargetSpace(args.spaceId), TRUE>>,
                <<"mdText", args.text, TRUE>>,
                <<"noTimeStamp", TRUE, args.noTimestamp>> >>)

WeblinkBody(args) ==
    ObjectOf(<< <<"spaceId", TargetSpace(args.spaceId), TRUE>>,
                <<"url", args.url, TRUE>>,
                <<"titleOverwrite", Coalesce(args.title, ""), TruthyString(args.title)>>,
                <<"descriptionOverwrite", Coalesce(args.description, ""),
                  TruthyString(args.description)>>,
                <<"mdText", Coalesce(args.notes, ""), TruthyString(args.notes)>>,
                <<"tags", Coalesce(args.tags, <<>>), TruthyArray(args.tags)>> >>)

LookupBody(args) ==
    ObjectOf(<< <<"searchTerm", args.searchTerm, TRUE>>,
                <<"spaceId", TargetSpace(args.spaceId), TRUE>> >>)

\* The outbound request each handler builds.
RequestOf(invocation) ==
    CASE invocation.tool = DailyNote ->
           FetchRequest("/save-to-daily-note", "POST", Some(DailyNoteBody(invocation.args)))
      [] invocation.tool = Weblink ->
           FetchRequest("/save-weblink", "POST", Some(WeblinkBody(invocation.args)))
      [] invocation.tool = GetSpaces ->
           FetchRequest("/spaces", "GET", None)
      [] invocation.tool = Lookup ->
           FetchRequest("/lookup", "POST", Some(LookupBody(invocation.args)))

\* Mutant of Preview: the comparison is >= instead of >.
PreviewOffByOne(text) ==
    IF Len(text) >= PreviewLimit
    THEN SubSeq(text, 1, PreviewLimit) \o <<Ellipsis>>
    ELSE text

\* text.length > 200 ? text.slice(0, 200) + ellipsis : text
Preview(text) ==
    IF Len(text) > PreviewLimit
    THEN SubSeq(text, 1, PreviewLimit) \o <<Ellipsis>>
    ELSE text

DailyNoteReply(args) == Reply(<<DailyHeader>> \o Preview(args.text))

WeblinkReply(args, result) ==
    Reply(<<WeblinkHeader, Coalesce(result.title, args.url), "**\n", args.url,
            "\n\nID: ", Coalesce(result.id, "n/a")>>)

SpaceLine(s) == <<BulletOpen, s.title, "** -- [code]", s.id, "[/code]">>

\* const { spaces } = ...; spaces.map(...).join("\n")
SpacesReply(result) ==
    IF result.spaces = None
    THEN Failed(<<"TypeError: ", "Cannot read properties of undefined (reading map)">>)
    ELSE LET spaces == result.spaces[1]
             formatted == Join([i \in 1..Len(spaces) |-> SpaceLine(spaces[i])], "\n")
         IN  Reply(<<SpacesHeader>> \o formatted)

LookupEntry(r) ==
    <<BulletOpen, r.title, "**\n  ID: [code]", r.id, "[/code]\n  Type: ", r.structureId>>

\* Mutant of LookupReply: the matches are listed last to first.
LookupReplyReversed(args, result) ==
    IF result.results = None
    THEN Failed(<<"TypeError: ", "Cannot read properties of undefined (reading length)">>)
    ELSE LET results == result.results[1] IN
         IF Len(results) = 0
         THEN Reply(<<NothingFound, args.searchTerm, "\"">>)
         ELSE LET formatted ==
                      Join([i \in 1..Len(results) |->
                               LookupEntry(results[Len(results) + 1 - i])], "\n\n")
              IN  Reply(<<ResultsHeader, args.searchTerm, "\":\n\n">> \o formatted)

\* const { results } = ...; if (!results.length) ...; results.map(...).join("\n\n")
LookupReply(args, result) ==
    IF result.results = None
    THEN Failed(<<"TypeError: ", "Cannot read properties of undefined (reading length)">>)
    ELSE LET results == result.results[1] IN
         IF Len(results) = 0
         THEN Reply(<<NothingFound, args.searchTerm, "\"">>)
         ELSE LET formatted ==
                      Join([i \in 1..Len(results) |-> LookupEntry(results[i])], "\n\n")
              IN  Reply(<<ResultsHeader, args.searchTerm, "\":\n\n">> \o formatted)

\* The rest of a handler once capacitiesRequest has settled: a rejection
\* propagates out of the handler, a value is formatted.
HandlerResult(invocation, settled) ==
    IF settled.threw THEN Failed(settled.message)
    ELSE CASE invocation.tool = DailyNote -> DailyNoteReply(invocation.args)
           [] invocation.tool = Weblink -> WeblinkReply(invocation.args, settled.value)
           [] invocation.tool = GetSpaces -> SpacesReply(settled.value)
           [] invocation.tool = Lookup -> LookupReply(invocation.args, settled.value)

\* ------------------------------------------------------------- inputs
\* Argument bags that pass the declared zod shapes.
CodeUnit(k) == <<"a", "b", "c">>[k + 1]
NoteText(n, p) == [i \in 1..n |-> CodeUnit((i + p) % 3)]
NoteLengths == {1, PreviewLimit - 1} \cup (PreviewLimit..(PreviewLimit + MaxOver))
NoteTexts == {NoteText(n, p) : n \in NoteLengths, p \in {0, 1}}

ExplicitSpace == "11111111-1111-4111-8111-111111111111"
ConfiguredSpace == "22222222-2222-4222-8222-222222222222"
SpaceArgs == {None, Some(ExplicitSpace)}

OptionalStrings(S) == {None} \cup {Some(x) : x \in S}

DailyNoteInvocations(texts) ==
    {[tool |-> DailyNote, args |-> [text |-> t, spaceId |-> sp, noTimestamp |-> b]] :
        t \in texts, sp \in SpaceArgs, b \in BOOLEAN}

WeblinkInvocations(overrides, tagLists) ==
    {[tool |-> Weblink,
      args |-> [url |-> "https://example.com", title |-> ti, description |-> d,
                notes |-> n, tags |-> tg, spaceId |-> sp]] :
        ti \in overrides, d \in overrides, n \in overrides, tg \in tagLists,
        sp \in SpaceArgs}

\* inputSchema: z.object({}): no argument at all
GetSpacesInvocations == {[tool |-> GetSpaces, args |-> <<>>]}

LookupInvocations(terms) ==
    {[tool |-> Lookup, args |-> [searchTerm |-> q, spaceId |-> sp]] :
        q \in terms, sp \in SpaceArgs}

AllInvocations ==
    DailyNoteInvocations(NoteTexts)
    \cup WeblinkInvocations(OptionalStrings({"", "provided"}),
                            {None, Some(<<>>), Some(<<"t1", "t2">>)})
    \cup GetSpacesInvocations
    \cup LookupInvocations({"alpha", "beta"})

HttpInvocations ==
    GetSpacesInvocations \cup LookupInvocations({"alpha"})

\* What upstream may answer on the path of a tool.
HttpResponse(status, statusText, body) ==
    [status |-> status, statusText |-> statusText, body |-> body]

JsonBodies(tool) ==
    CASE tool = DailyNote -> {JsonText(EmptyObject)}
      [] tool = Weblink -> {JsonText(o) : o \in WeblinkObjects}
      [] tool = GetSpaces -> {JsonText(o) : o \in SpacesObjects}
      [] tool = Lookup -> {JsonText(o) : o \in LookupObjects}

ErrorResponses ==
    {HttpResponse(500, "Internal Server Error", b) : b \in {Some("server exploded"), None}}
    \cup {HttpResponse(404, "Not Found", Some(""))}

AllResponses(tool) ==
    {HttpResponse(200, "OK", b) :
        b \in {None} \cup {Some(t) : t \in JsonBodies(tool) \cup {"", " \n ", "<html>"}}}
    \cup {HttpResponse(204, "No Content", Some(""))}
    \cup ErrorResponses

HttpResponses(tool) ==
    {HttpResponse(200, "OK", Some(t)) :
        t \in {JsonText(JsonObject(None, None, Some(<<>>), None)),
               JsonText(JsonObject(None, None, None, Some(<<>>)))} \cap JsonBodies(tool)}
    \cup {HttpResponse(500, "Internal Server Error", Some("server exploded"))}

\* ---------------------------------------------------------------- start
Environments ==
    [CAPACITIES_TOKEN : OptionalStrings({"", "secret"}),
     CAPACITIES_SPACE_ID : OptionalStrings({"", ConfiguredSpace}),
     TRANSPORT : OptionalStrings({"http"}),
     PORT : OptionalStrings({"8080"})]

\* parseInt(text, 10) on the port texts of the environments
ParseInt(text) == CASE text = "3000" -> 3000 [] text = "8080" -> 8080

\* The state once the config constants (lines 8-10) are evaluated.
InitFrom(e) ==
    /\ env = e
    /\ API_TOKEN = Coalesce(e.CAPACITIES_TOKEN, "")
    /\ DEFAULT_SPACE_ID = Coalesce(e.CAPACITIES_SPACE_ID, "")
    /\ phase = "config"
    /\ exitCode = None
    /\ stderr = <<>>
    /\ tools = {}
    /\ channel = "none"
    /\ port = None
    /\ serverTransport = None
    /\ pc = [r \in Reqs |-> "idle"]
    /\ inv = [r \in Reqs |-> None]
    /\ calls = [r \in Reqs |-> <<>>]
    /\ response = [r \in Reqs |-> None]
    /\ outcome = [r \in Reqs |-> None]
    /\ deliveredOn = [r \in Reqs |-> None]

Init == \E e \in Environments : InitFrom(e)

reqVars == <<serverTransport, pc, inv, calls, response, outcome, deliveredOn>>

\* Mutant of TokenAbsent: only an unset variable counts, not an empty one.
TokenAbsentUnsetOnly(token) == env.CAPACITIES_TOKEN = None

\* if (!API_TOKEN)
TokenAbsent(token) == token = ""

\* if (!API_TOKEN) { process.stderr.write(...); process.exit(1); }
CheckToken ==
    /\ phase = "config"
    /\ IF TokenAbsent(API_TOKEN)
       THEN /\ stderr' = Append(stderr, TokenDiagnostic)
            /\ exitCode' = Some(1)
            /\ phase' = "exited"
       ELSE /\ phase' = "register"
            /\ UNCHANGED <<stderr, exitCode>>
    /\ UNCHANGED <<env, API_TOKEN, DEFAULT_SPACE_ID, tools, channel, port, reqVars>>

\* new McpServer(...) and the four server.registerTool(...) calls
RegisterTools ==
    /\ phase = "register"
    /\ tools' = ToolNames
    /\ phase' = "start"
    /\ UNCHANGED <<env, API_TOKEN, DEFAULT_SPACE_ID, exitCode, stderr, channel, port, reqVars>>

\* const TRANSPORT = process.env.TRANSPORT ?? "stdio"
TRANSPORT == Coalesce(env.TRANSPORT, DefaultTransport)

\* The transport of the stdio channel; the transport of POST /mcp request r is r.
StdioTransport == 0

\* runStdio(): connect the server to a StdioServerTransport
runStdio ==
    /\ phase = "start"
    /\ TRANSPORT # "http"
    /\ serverTransport' = Some(StdioTransport)
    /\ stderr' = Append(stderr, "Capacities MCP server started (stdio)\n")
    /\ channel' = "stdio"
    /\ phase' = "running"
    /\ UNCHANGED <<env, API_TOKEN, DEFAULT_SPACE_ID, exitCode, tools, port,
                   pc, inv, calls, response, outcome, deliveredOn>>

\* runHttp(): routes, then app.listen(port)
runHttp ==
    /\ phase = "start"
    /\ TRANSPORT = "http"
    /\ port' = Some(ParseInt(Coalesce(env.PORT, DefaultPort)))
    /\ stderr' = Append(stderr, "Capacities MCP server running on http://0.0.0.0:port/mcp\n")
    /\ channel' = "http"
    /\ phase' = "running"
    /\ UNCHANGED <<env, API_TOKEN, DEFAULT_SPACE_ID, exitCode, tools, reqVars>>

\* ------------------------------------------------------------- requests
\* The transport a request arrived on.
OwnTransport(r) == IF channel = "http" THEN r ELSE StdioTransport

\* A tool handler from its entry to its first await (the fetch inside
\* capacitiesRequest) or, when no target space resolves, to its return; the
\* reply of a handler that returned at once leaves on the transport that was
\* current on entry.
StartHandler(r, invocation) ==
    /\ inv' = [inv EXCEPT ![r] = Some(invocation)]
    /\ IF MissingSpace(invocation)
       THEN /\ outcome' = [outcome EXCEPT ![r] = Some(Reply(<<MissingSpaceText>>))]
            /\ deliveredOn' = [deliveredOn EXCEPT ![r] = Some(Some(OwnTransport(r)))]
            /\ pc' = [pc EXCEPT ![r] = "done"]
            /\ UNCHANGED calls
       ELSE /\ calls' = [calls EXCEPT ![r] = Fetch(calls[r], RequestOf(invocation))]
            /\ pc' = [pc EXCEPT ![r] = "awaiting"]
            /\ UNCHANGED <<outcome, deliveredOn>>
    /\ UNCHANGED response

\* A tools/call message read from the stdio transport.
StdioRequest(r, invocation) ==
    /\ phase = "running"
    /\ channel = "stdio"
    /\ pc[r] = "idle"
    /\ invocation.tool \in tools
    /\ StartHandler(r, invocation)
    /\ UNCHANGED <<procVars, serverTransport>>

\* server.connect(transport) on the one shared server: it takes the new
\* transport (TRUE), or, when it is still connected to another one, the SDK
\* release in use may instead refuse with "Already connected" (FALSE).
ConnectOutcomes(current) == IF current = None THEN {TRUE} ELSE {TRUE, FALSE}

\* app.post("/mcp", ...): a fresh transport, server.connect(transport),
\* transport.handleRequest(req, res, req.body) up to the handler's first await.
PostMcp(r, invocation) ==
    /\ phase = "running"
    /\ channel = "http"
    /\ pc[r] = "idle"
    /\ invocation.tool \in tools
    /\ \E connected \in ConnectOutcomes(serverTransport) :
          IF connected
          THEN /\ serverTransport' = Some(r)
               /\ StartHandler(r, invocation)
          ELSE /\ pc' = [pc EXCEPT ![r] = "rejected"]
               /\ UNCHANGED <<serverTransport, inv, calls, response, outcome, deliveredOn>>
    /\ UNCHANGED procVars

\* Where the SDK may send the result of a handler that awaited: on the
\* transport the request arrived on, or on whatever transport the shared
\* server holds when the handler settles (none: the result is dropped).
SendRoutes(r) == {Some(OwnTransport(r)), serverTransport}

\* fetch resolves with res: capacitiesRequest settles, the handler runs to
\* its end, and its result is sent.
UpstreamResponds(r, res) ==
    /\ pc[r] = "awaiting"
    /\ response' = [response EXCEPT ![r] = Some(res)]
    /\ outcome' = [outcome EXCEPT ![r] = Some(HandlerResult(inv[r][1], CapacitiesResult(res)))]
    /\ \E route \in SendRoutes(r) : deliveredOn' = [deliveredOn EXCEPT ![r] = Some(route)]
    /\ pc' = [pc EXCEPT ![r] = "done"]
    /\ UNCHANGED <<procVars, serverTransport, inv, calls>>

\* res.on("close", () => transport.close()): closing a transport the server
\* was connected to runs the server's onclose, which drops its transport.
ResClose(r) ==
    /\ channel = "http"
    /\ pc[r] = "done"
    /\ pc' = [pc EXCEPT ![r] = "closed"]
    /\ serverTransport' = None
    /\ UNCHANGED <<procVars, inv, calls, response, outcome, deliveredOn>>

\* --------------------------------------------------------- specifications
\* One invocation, over either channel, with every argument bag and every
\* upstream answer of the input sets.
Next ==
    \/ CheckToken
    \/ RegisterTools
    \/ runStdio
    \/ runHttp
    \/ \E i \in AllInvocations : StdioRequest(1, i)
    \/ \E i \in AllInvocations : PostMcp(1, i)
    \/ /\ pc[1] = "awaiting"
       /\ \E res \in AllResponses(inv[1][1].tool) : UpstreamResponds(1, res)
    \/ ResClose(1)

Spec == Init /\ [][Next]_vars

\* The network channel with MaxReqs requests in flight at once.
InitHttp ==
    \E e \in Environments :
        /\ e.TRANSPORT = Some("http")
        /\ e.PORT = None
        /\ InitFrom(e)

NextHttp ==
    \/ CheckToken
    \/ RegisterTools
    \/ runHttp
    \/ \E r \in Reqs, i \in HttpInvocations : PostMcp(r, i)
    \/ \E r \in Reqs :
          /\ pc[r] = "awaiting"
          /\ \E res \in HttpResponses(inv[r][1].tool) : UpstreamResponds(r, res)
    \/ \E r \in Reqs : ResClose(r)

SpecHttp == InitHttp /\ [][NextHttp]_vars
\* ------------------------------------------------------------- properties
Invocation(r) == inv[r][1]
Outcome(r) == outcome[r][1]
Response(r) == response[r][1]

\* The spaceId argument of an invocation, undefined for the tool that has none.
GivenSpaceId(invocation) ==
    IF invocation.tool = GetSpaces THEN None ELSE invocation.args.spaceId

NoDefaultSpace == DEFAULT_SPACE_ID = ""

\* The workspace id an invocation resolves to, as the specification words it.
ResolvedSpace(invocation) ==
    IF GivenSpaceId(invocation) # None THEN GivenSpaceId(invocation)[1] ELSE DEFAULT_SPACE_ID

IsErrorReply(r) == outcome[r] = Some(Reply(<<MissingSpaceText>>))

Contains(text, piece) == \E i \in 1..Len(text) : text[i] = piece

\* The JSON body of the one outbound call of request r.
SentBody(r) == calls[r][1].body[1]

\* C1 as stated: for each of the four tools, an invocation with no spaceId
\* while no default workspace is configured gets the textual error reply and
\* makes no outbound call.
C1_AllFourTools ==
    \A r \in Reqs :
        (inv[r] # None /\ GivenSpaceId(Invocation(r)) = None /\ NoDefaultSpace)
            => (calls[r] = <<>> /\ IsErrorReply(r))

\* C1 amended: the same for the three tools that take a spaceId
\* (save_to_daily_note, save_weblink, lookup); get_spaces needs no workspace.
C1_ToolsWithSpace ==
    \A r \in Reqs :
        (/\ inv[r] # None
         /\ Invocation(r).tool \in {DailyNote, Weblink, Lookup}
         /\ GivenSpaceId(Invocation(r)) = None
         /\ NoDefaultSpace)
            => (calls[r] = <<>> /\ IsErrorReply(r) /\ response[r] = None)

C1_Witness ==
    \E r \in Reqs :
        /\ inv[r] # None
        /\ Invocation(r).tool = Lookup
        /\ GivenSpaceId(Invocation(r)) = None
        /\ env.CAPACITIES_SPACE_ID = Some("")
        /\ pc[r] = "done"
        /\ IsErrorReply(r)

\* An invocation reaches the invoke step when its tool needs no workspace or
\* a workspace id resolves.
ReachesInvoke(invocation) ==
    \/ invocation.tool = GetSpaces
    \/ GivenSpaceId(invocation) # None
    \/ ~NoDefaultSpace

\* C2: an invocation that reaches the invoke step makes exactly one outbound
\* call, and no invocation ever makes more than one, whatever upstream answers.
C2_ExactlyOneCall ==
    \A r \in Reqs :
        /\ Len(calls[r]) <= 1
        /\ (inv[r] # None /\ ReachesInvoke(Invocation(r))) => Len(calls[r]) = 1

C2_Witness ==
    \E r \in Reqs :
        /\ pc[r] = "done"
        /\ response[r] # None
        /\ Response(r).status = 500
        /\ Len(calls[r]) = 1

\* C3: on a non-2xx answer the invocation fails, and the failure message holds
\* the status code and the body text, or the status line when the body cannot
\* be read.
C3_UpstreamErrorFails ==
    \A r \in Reqs :
        (response[r] # None /\ ~(Response(r).status \in 200..299))
            => /\ outcome[r] # None
               /\ Outcome(r).kind = "failed"
               /\ Contains(Outcome(r).text, ToString(Response(r).status))
               /\ IF Response(r).body # None
                  THEN Contains(Outcome(r).text, Response(r).body[1])
                  ELSE Contains(Outcome(r).text, Response(r).statusText)

C3_Witness ==
    \E r \in Reqs :
        /\ response[r] = Some(HttpResponse(500, "Internal Server Error", Some("server exploded")))
        /\ Outcome(r).kind = "failed"
        /\ Contains(Outcome(r).text, "500")
        /\ Contains(Outcome(r).text, "server exploded")

\* C4 as stated: for every tool, status 200 with an empty or whitespace-only
\* body ends in a normal reply, never in a failure.
C4_EmptyBodySucceeds ==
    \A r \in Reqs :
        (/\ response[r] # None
         /\ Response(r).status = 200
         /\ Response(r).body \in {Some(""), Some(" \n ")})
            => (outcome[r] # None /\ Outcome(r).kind = "reply")

\* C5 as stated: on the network channel no request is refused or disturbed by
\* another one, and every reply leaves on the transport of its own request.
C5_RequestsIsolated ==
    \A r \in Reqs :
        /\ pc[r] # "rejected"
        /\ deliveredOn[r] # None => deliveredOn[r] = Some(Some(r))

\* The two halves of C5 on their own: each fails by itself, the first under an
\* SDK that refuses a second connect, the second under one that re-targets
\* the shared server.
NoRequestRefused == \A r \in Reqs : pc[r] # "rejected"
RepliesOnOwnTransport ==
    \A r \in Reqs : deliveredOn[r] # None => deliveredOn[r] = Some(Some(r))

TokenMissing == env.CAPACITIES_TOKEN \in {None, Some("")}

\* C6: with the token unset or empty the process exits with status 1 and the
\* diagnostic at its first step; no tool is registered, no channel started,
\* no request handled and no outbound call made.
C6_NoPartialStartup ==
    TokenMissing =>
        /\ phase \in {"config", "exited"}
        /\ phase = "exited" => (exitCode = Some(1) /\ stderr = <<TokenDiagnostic>>)
        /\ phase = "config" => (exitCode = None /\ stderr = <<>>)
        /\ tools = {}
        /\ channel = "none"
        /\ port = None
        /\ serverTransport = None
        /\ \A r \in Reqs : pc[r] = "idle" /\ calls[r] = <<>>

C6_Witness ==
    /\ env.CAPACITIES_TOKEN = Some("")
    /\ phase = "exited"
    /\ exitCode = Some(1)

SavedDailyNote(r) ==
    /\ inv[r] # None
    /\ Invocation(r).tool = DailyNote
    /\ response[r] # None
    /\ outcome[r] # None
    /\ Outcome(r).kind = "reply"

\* C7: the preview in a successful save_to_daily_note reply is the whole text
\* when it has at most 200 code units, else its first 200 code units followed
\* by the ellipsis.
C7_Preview ==
    \A r \in Reqs :
        SavedDailyNote(r) =>
            LET text == Invocation(r).args.text
                shown == Tail(Outcome(r).text)
            IN  /\ Len(text) <= 200 => shown = text
                /\ Len(text) > 200 =>
                      /\ Len(shown) = 201
                      /\ \A i \in 1..200 : shown[i] = text[i]
                      /\ shown[201] = Ellipsis

C7_Witness ==
    \E r \in Reqs :
        /\ SavedDailyNote(r)
        /\ Len(Invocation(r).args.text) = 201
        /\ Len(Outcome(r).text) = 202

SentWeblink(r) ==
    /\ inv[r] # None
    /\ Invocation(r).tool = Weblink
    /\ calls[r] # <<>>

WeblinkKeys ==
    {"spaceId", "url", "titleOverwrite", "descriptionOverwrite", "mdText", "tags"}

\* C8 as stated: the save_weblink body holds the resolved workspace id and the
\* url, and each override field exactly when its argument was provided.
C8_OverridesIffProvided ==
    \A r \in Reqs :
        SentWeblink(r) =>
            LET args == Invocation(r).args
                body == SentBody(r)
            IN  /\ body.spaceId = ResolvedSpace(Invocation(r))
                /\ body.url = args.url
                /\ ("titleOverwrite" \in DOMAIN body) <=> (args.title # None)
                /\ ("descriptionOverwrite" \in DOMAIN body) <=> (args.description # None)
                /\ ("mdText" \in DOMAIN body) <=> (args.notes # None)
                /\ ("tags" \in DOMAIN body) <=> (args.tags # None)

\* C8 amended: title, description and notes are sent exactly when provided and
\* not the empty string, tags exactly when provided (an empty list included);
\* a field that is sent carries the argument, and nothing else is sent.
C8_OverridesIffNonEmpty ==
    \A r \in Reqs :
        SentWeblink(r) =>
            LET args == Invocation(r).args
                body == SentBody(r)
            IN  /\ DOMAIN body \subseteq WeblinkKeys
                /\ body.spaceId = ResolvedSpace(Invocation(r))
                /\ body.url = args.url
                /\ ("titleOverwrite" \in DOMAIN body) <=> (args.title \notin {None, Some("")})
                /\ ("descriptionOverwrite" \in DOMAIN body)
                      <=> (args.description \notin {None, Some("")})
                /\ ("mdText" \in DOMAIN body) <=> (args.notes \notin {None, Some("")})
                /\ ("tags" \in DOMAIN body) <=> (args.tags # None)
                /\ "titleOverwrite" \in DOMAIN body => Some(body.titleOverwrite) = args.title
                /\ "descriptionOverwrite" \in DOMAIN body
                      => Some(body.descriptionOverwrite) = args.description
                /\ "mdText" \in DOMAIN body => Some(body.mdText) = args.notes
                /\ "tags" \in DOMAIN body => Some(body.tags) = args.tags

C8_Witness ==
    \E r \in Reqs :
        /\ SentWeblink(r)
        /\ Invocation(r).args.title = Some("")
        /\ Invocation(r).args.notes = Some("provided")
        /\ Invocation(r).args.tags = Some(<<>>)
        /\ DOMAIN SentBody(r) = {"spaceId", "url", "mdText", "tags"}

RECURSIVE BulletIdsFrom(_, _)
\* The ids of the bulleted entries of a reply, in order: an entry opens with
\* the bullet piece and holds its id three pieces later.
BulletIdsFrom(text, i) ==
    IF i > Len(text) THEN <<>>
    ELSE IF text[i] = BulletOpen THEN <<text[i + 3]>> \o BulletIdsFrom(text, i + 1)
    ELSE BulletIdsFrom(text, i + 1)

\* C9: a lookup whose upstream call returns the matches l replies with the
\* search term and no bulleted entry when l is empty, and with one bulleted
\* entry per match, in upstream's order, otherwise.
C9_LookupEntries ==
    \A r \in Reqs : \A l \in SeqsUpTo(LookupItems, MaxResults) :
        (/\ inv[r] # None
         /\ Invocation(r).tool = Lookup
         /\ response[r] =
               Some(HttpResponse(200, "OK", Some(JsonText(JsonObject(None, None, None, Some(l)))))))
            => /\ outcome[r] # None
               /\ Outcome(r).kind = "reply"
               /\ BulletIdsFrom(Outcome(r).text, 1) = [k \in 1..Len(l) |-> l[k].id]
               /\ Len(l) = 0 => Contains(Outcome(r).text, Invocation(r).args.searchTerm)

C9_Witness ==
    \E r \in Reqs :
        /\ inv[r] # None
        /\ Invocation(r).tool = Lookup
        /\ outcome[r] # None
        /\ BulletIdsFrom(Outcome(r).text, 1) = <<"o2", "o1">>

\* C10: the workspace id of the outbound call of save_to_daily_note,
\* save_weblink and lookup is the spaceId argument when one was given and the
\* process-wide default otherwise, and no step changes the default.
C10_TargetSpace ==
    /\ [](\A r \in Reqs :
            (/\ inv[r] # None
             /\ Invocation(r).tool \in {DailyNote, Weblink, Lookup}
             /\ calls[r] # <<>>)
                => /\ GivenSpaceId(Invocation(r)) # None
                      => SentBody(r).spaceId = GivenSpaceId(Invocation(r))[1]
                   /\ GivenSpaceId(Invocation(r)) = None
                      => SentBody(r).spaceId = DEFAULT_SPACE_ID)
    /\ [][DEFAULT_SPACE_ID' = DEFAULT_SPACE_ID]_vars

C10_Witness ==
    \E r \in Reqs :
        /\ inv[r] # None
        /\ Invocation(r).tool = DailyNote
        /\ GivenSpaceId(Invocation(r)) = Some(ExplicitSpace)
        /\ DEFAULT_SPACE_ID = ConfiguredSpace
        /\ calls[r] # <<>>
        /\ SentBody(r).spaceId = ExplicitSpace
====
